---- MODULE Spec2Model ----
(***************************************************************************)
(* Model of src/main.py: the /linkedin/scrape handler (scrape_linkedin)    *)
(* and the text normalizer clean_text.                                     *)
(*                                                                         *)
(* Strings are sequences of one-character strings, so that prefix tests,   *)
(* whitespace collapsing, trimming and lengths are computed, not assumed.  *)
(* Optional[str] is None or Some(s).                                       *)
(***************************************************************************)
EXTENDS Integers, Sequences, FiniteSets, TLC

VARIABLES
    url,            \* the request's url query parameter
    pc,             \* position of the handler in scrape_linkedin
    fetched,        \* TRUE once requests.get has been called
    resp,           \* what requests.get gave: an exception or a response
    soup,           \* the parsed document, None before parsing
    name, headline, \* results of the two selector cascades
    name_evald,     \* name selectors handed to select_one so far
    headline_evald, \* headline selectors handed to select_one so far
    experience, education, skills,  \* the three lists being collected
    exp_i, edu_i, skl_i,            \* items of each loop examined so far
    result,         \* what the caller receives: None, an error or a record
    failure,        \* which raise statement ended the request, if any
    arg, out1, out2 \* clean_text alone: its argument and two applications

vars == <<url, pc, fetched, resp, soup, name, headline, name_evald,
          headline_evald, experience, education, skills, exp_i, edu_i, skl_i,
          result, failure, arg, out1, out2>>

handlerVars == <<url, pc, fetched, resp, soup, name, headline, name_evald,
                 headline_evald, experience, education, skills, exp_i, edu_i,
                 skl_i, result, failure>>

cleanVars == <<arg, out1, out2>>

----------------------------------------------------------------------------
(* Bounds of the model *)

MaxLen == 4         \* longest string handed to clean_text on its own
MaxElems == 3       \* elements of the exhaustively enumerated documents
MaxOver == 3        \* elements of a list document beyond the list's capacity

----------------------------------------------------------------------------
(* Strings and optional values *)

None == [some |-> FALSE]
Some(s) == [some |-> TRUE, v |-> s]

\* Python truthiness of an Optional[str]: None and "" are falsy.
Truthy(t) == t.some /\ t.v # <<>>

\* Characters for which str.isspace() holds (those the model uses).
Whitespace == {" ", "\t", "\n", "\r", "\f"}

IsSpace(c) == c \in Whitespace

Rep(c, n) == [i \in 1..n |-> c]

RECURSIVE Join(_, _)
\* sep.join(parts)
Join(parts, sep) ==
    IF parts = <<>> THEN <<>>
    ELSE IF Len(parts) = 1 THEN parts[1]
    ELSE parts[1] \o sep \o Join(Tail(parts), sep)

StartsWith(s, p) == Len(s) >= Len(p) /\ SubSeq(s, 1, Len(p)) = p

RECURSIVE SkipSpaces(_)
SkipSpaces(s) ==
    IF s # <<>> /\ IsSpace(Head(s)) THEN SkipSpaces(Tail(s)) ELSE s

RECURSIVE SubSpaces(_)
\* re.sub(r"\s+", " ", s): every maximal whitespace run becomes one space.
SubSpaces(s) ==
    IF s = <<>> THEN <<>>
    ELSE IF IsSpace(Head(s)) THEN <<" ">> \o SubSpaces(SkipSpaces(Tail(s)))
    ELSE <<Head(s)>> \o SubSpaces(Tail(s))

RECURSIVE RStrip(_)
RStrip(s) ==
    IF s # <<>> /\ IsSpace(s[Len(s)]) THEN RStrip(SubSeq(s, 1, Len(s) - 1))
    ELSE s

\* str.strip()
Strip(s) == RStrip(SkipSpaces(s))

\* Mutant: each whitespace character replaced on its own (\s, not \s+).
RECURSIVE SubEachSpace(_)
SubEachSpace(s) ==
    IF s = <<>> THEN <<>>
    ELSE IF IsSpace(Head(s)) THEN <<" ">> \o SubEachSpace(Tail(s))
    ELSE <<Head(s)>> \o SubEachSpace(Tail(s))

clean_text_no_run(text) ==
    IF ~Truthy(text) THEN text ELSE Some(Strip(SubEachSpace(text.v)))

clean_text(text) ==
    IF ~Truthy(text) THEN text ELSE Some(Strip(SubSpaces(text.v)))

----------------------------------------------------------------------------
(* The parsed document (BeautifulSoup) as far as the handler queries it *)

\* A node is what a compound selector looks at: tag, classes, and the
\* keywords its id attribute contains.
Node(tag, classes, id_has) ==
    [tag |-> tag, classes |-> classes, id_has |-> id_has]

\* An element: its own node, the nodes of its ancestors, and its descendant
\* text nodes in document order.
Element(node, anc, strings) ==
    [tag |-> node.tag, classes |-> node.classes, id_has |-> node.id_has,
     anc |-> anc, strings |-> strings]

\* A compound selector: tag ("*" for any), class ("" for none),
\* [id*=...] ("" for none).
Compound(tag, class, id_has) ==
    [tag |-> tag, class |-> class, id_has |-> id_has]

MatchCompound(c, n) ==
    /\ c.tag = "*" \/ n.tag = c.tag
    /\ c.class = "" \/ c.class \in n.classes
    /\ c.id_has = "" \/ c.id_has \in n.id_has

\* A selector is one compound, or two joined by the descendant combinator.
Matches(sel, el) ==
    /\ MatchCompound(sel[Len(sel)], el)
    /\ Len(sel) = 2 => \E a \in el.anc : MatchCompound(sel[1], a)

\* el.get_text(sep)
get_text(el, sep) == Join(el.strings, sep)

\* Mutant: the matches of each selector in turn, one selector after another.
select_per_selector(doc, sels) ==
    LET OneSel(sel) ==
            SelectSeq([p \in 1..Len(doc.elements) |-> p],
                      LAMBDA p : Matches(sel, doc.elements[p]))
        F[k \in 0..Len(sels)] ==
            IF k = 0 THEN <<>> ELSE F[k - 1] \o OneSel(sels[k])
    IN  F[Len(sels)]

\* soup.select("s1, s2, ..."): the positions of the elements matching any
\* selector of the list, in document order, each element once.
select(doc, sels) ==
    SelectSeq([p \in 1..Len(doc.elements) |-> p],
              LAMBDA p : \E k \in 1..Len(sels) : Matches(sels[k], doc.elements[p]))

\* soup.select_one(sel): position of the first match, 0 for None.
select_one(doc, sel) ==
    LET m == select(doc, <<sel>>) IN IF m = <<>> THEN 0 ELSE m[1]

possible_name_selectors ==
    << <<Compound("h1", "", "")>>,
       <<Compound("h1", "text-heading-xlarge", "")>>,
       <<Compound("*", "pv-text-details__left-panel", ""), Compound("h1", "", "")>>,
       <<Compound("*", "top-card-layout__title", "")>> >>

possible_headline_selectors ==
    << <<Compound("*", "pv-text-details__left-panel", ""),
         Compound("*", "text-body-medium", "")>>,
       <<Compound("*", "top-card-layout__headline", "")>>,
       <<Compound("h2", "", "")>> >>

experience_selectors ==
    << <<Compound("section", "", "experience")>>,
       <<Compound("section", "experience", "")>>,
       <<Compound("*", "experience__list", ""), Compound("li", "", "")>>,
       <<Compound("*", "experience-section", ""), Compound("li", "", "")>> >>

education_selectors ==
    << <<Compound("section", "", "education")>>,
       <<Compound("section", "education", "")>>,
       <<Compound("*", "education__list", ""), Compound("li", "", "")>>,
       <<Compound("*", "education-section", ""), Compound("li", "", "")>> >>

skills_selectors ==
    << <<Compound("section", "", "skills"), Compound("li", "", "")>>,
       <<Compound("*", "pv-skill-category-list__skill", "")>>,
       <<Compound("*", "skills-section", ""), Compound("li", "", "")>> >>

----------------------------------------------------------------------------
(* Constants of the three collection loops *)

EXPERIENCE_MIN == 30
EXPERIENCE_CAP == 8
EDUCATION_MIN == 20
EDUCATION_CAP == 8
SKILLS_MIN == 2
SKILLS_MAX == 80
SKILLS_CAP == 25

----------------------------------------------------------------------------
(* Inputs: urls, documents, and what the network answers *)

U_http == <<"h","t","t","p",":","/","/","a">>
U_https == <<"h","t","t","p","s",":","/","/","a">>
U_ftp == <<"f","t","p",":","/","/","e","x","a","m","p","l","e",".","c","o","m">>
U_httpx == <<"h","t","t","p","x",":","/","/","a">>
U_bare == <<"h","t","t","p">>
U_upper == <<"H","T","T","P",":","/","/","a">>
U_empty == <<>>

Urls == {U_http, U_https, U_ftp, U_httpx, U_bare, U_upper, U_empty}

NoTag == [tag |-> FALSE]
MetaNoContent == [tag |-> TRUE, has_content |-> FALSE]
MetaContent(s) == [tag |-> TRUE, has_content |-> TRUE, content |-> s]
TitleTag(string) == [tag |-> TRUE, string |-> string]

Document(og_title, og_description, og_image, meta_desc, title, elements) ==
    [og_title |-> og_title, og_description |-> og_description,
     og_image |-> og_image, meta_desc |-> meta_desc, title |-> title,
     elements |-> elements]

EmptyDoc == Document(NoTag, NoTag, NoTag, NoTag, NoTag, <<>>)

JaneDoe == <<"J","a","n","e"," ","D","o","e">>

\* Scenario 1 of the specification: only <title>Jane Doe</title>.
MinimalDoc == Document(NoTag, NoTag, NoTag, NoTag, TitleTag(Some(JaneDoe)), <<>>)

MetaTexts == {<<>>, <<" ">>, <<"a">>, <<" ","a"," ","\n","b","\t">>}

OgTitles == {NoTag, MetaNoContent} \cup {MetaContent(s) : s \in MetaTexts}

PageTitles ==
    {NoTag, TitleTag(None), TitleTag(Some(<<>>)), TitleTag(Some(<<"t">>)),
     TitleTag(Some(<<"\n","t"," "," ","u"," ">>))}

Descriptions == {NoTag, MetaNoContent, MetaContent(<<" ","d"," "," ","e">>)}

Images == {NoTag, MetaContent(<<" ","i"," "," ","j">>)}

MetaDocs ==
    {Document(t, d, i, m, p, <<>>) :
        t \in OgTitles, d \in Descriptions, i \in Images,
        m \in {NoTag, MetaContent(<<"m">>)}, p \in PageTitles}

LeftPanel == Node("div", {"pv-text-details__left-panel"}, {})

\* Shapes the name cascade can see.
NameShapes ==
    {[node |-> Node("h1", {}, {}), anc |-> {}],
     [node |-> Node("h1", {"text-heading-xlarge"}, {}), anc |-> {}],
     [node |-> Node("h1", {}, {}), anc |-> {LeftPanel}],
     [node |-> Node("div", {"top-card-layout__title"}, {}), anc |-> {}]}

\* Shapes the headline cascade can see.
HeadlineShapes ==
    {[node |-> Node("div", {"text-body-medium"}, {}), anc |-> {LeftPanel}],
     [node |-> Node("div", {"top-card-layout__headline"}, {}), anc |-> {}],
     [node |-> Node("h2", {}, {}), anc |-> {}]}

\* Text nodes of a cascade element: whitespace only, and two texts that
\* differ after normalization.
CascadeStrings ==
    {<< <<" ","\n">> >>, << <<"a">> >>, << <<" ","b">>, <<"c"," ">> >>}

\* A heading without any text node.
BareH1 == Element(Node("h1", {}, {}), {}, <<>>)

NameElements ==
    {Element(sh.node, sh.anc, st) : sh \in NameShapes, st \in CascadeStrings}
        \cup {BareH1}

HeadlineElements ==
    {Element(sh.node, sh.anc, st) : sh \in HeadlineShapes, st \in CascadeStrings}

SeqsUpTo(S, n) == UNION {[1..k -> S] : k \in 0..n}

CascadeDocs ==
    {Document(NoTag, NoTag, NoTag, NoTag, NoTag, els) :
        els \in SeqsUpTo(NameElements, MaxElems)
                    \cup SeqsUpTo(HeadlineElements, MaxElems)}

\* How long the text of the i-th element of a list document is, relative to
\* the field's minimum length lo: one character more per position ("over"),
\* exactly lo ("at_min"), the same accepted text everywhere ("same"), lo
\* characters wrapped in whitespace ("padded"), two text nodes of lo - 1 and
\* 1 characters ("joined"), or n characters ("fixed").
TextClass(kind, n) == [kind |-> kind, n |-> n]

StringsOf(class, lo, i) ==
    CASE class.kind = "over" -> << Rep("x", lo + i) >>
      [] class.kind = "at_min" -> << Rep("x", lo) >>
      [] class.kind = "same" -> << Rep("s", lo + 1) >>
      [] class.kind = "padded" -> << <<" ">> \o Rep("x", lo) \o <<"\n"," ">> >>
      [] class.kind = "joined" -> << Rep("j", lo - 1), <<"k">> >>
      [] class.kind = "fixed" -> << Rep("m", class.n) >>

CommonClasses ==
    {TextClass("over", 0), TextClass("at_min", 0), TextClass("same", 0),
     TextClass("padded", 0), TextClass("joined", 0)}

\* A list document of n elements: every element is of kind b, except those
\* at positions 2 and cap, which are of kind a.  Documents are short, or
\* about as long as the list's capacity.
ListElements(a, b, lo, cap, n) ==
    [i \in 1..n |->
        LET k == IF i \in {2, cap} THEN a ELSE b
        IN  Element(k.shape.node, k.shape.anc, StringsOf(k.class, lo, i))]

Kinds(shapes, classes) ==
    {[shape |-> sh, class |-> c] : sh \in shapes, c \in classes}

ListDocs(shapes, classes, odd, lo, cap) ==
    UNION {{Document(NoTag, NoTag, NoTag, NoTag, NoTag,
                     ListElements(a, b, lo, cap, n)) :
                a \in odd \cup {b},
                n \in (0..MaxElems) \cup ((cap - 1)..(cap + MaxOver))} :
           b \in Kinds(shapes, classes)}

Shape(node, anc) == [node |-> node, anc |-> anc]

PlainLi == Shape(Node("li", {}, {}), {})

ExperienceShapes ==
    {Shape(Node("section", {}, {"experience"}), {}),
     Shape(Node("section", {"experience"}, {}), {}),
     Shape(Node("section", {"experience"}, {"experience"}), {}),
     Shape(Node("li", {}, {}), {Node("ul", {"experience__list"}, {})}),
     Shape(Node("li", {}, {}), {Node("div", {"experience-section"}, {})}),
     PlainLi}

EducationShapes ==
    {Shape(Node("section", {}, {"education"}), {}),
     Shape(Node("section", {"education"}, {}), {}),
     Shape(Node("li", {}, {}), {Node("ul", {"education__list"}, {})}),
     Shape(Node("li", {}, {}), {Node("div", {"education-section"}, {})}),
     PlainLi}

SkillsShapes ==
    {Shape(Node("li", {}, {}), {Node("section", {}, {"skills"})}),
     Shape(Node("span", {"pv-skill-category-list__skill"}, {}), {}),
     Shape(Node("li", {"pv-skill-category-list__skill"}, {}),
           {Node("section", {}, {"skills"})}),
     Shape(Node("li", {}, {}), {Node("div", {"skills-section"}, {})}),
     PlainLi}

ExperienceDocs ==
    ListDocs(ExperienceShapes,
             CommonClasses \cup {TextClass("fixed", SKILLS_MAX + 1)},
             {[shape |-> Shape(Node("section", {}, {"experience"}), {}),
               class |-> TextClass("over", 0)],
              [shape |-> Shape(Node("section", {"experience"}, {"experience"}), {}),
               class |-> TextClass("same", 0)],
              [shape |-> Shape(Node("li", {}, {}), {Node("div", {"experience-section"}, {})}),
               class |-> TextClass("at_min", 0)]},
             EXPERIENCE_MIN, EXPERIENCE_CAP)

EducationDocs ==
    ListDocs(EducationShapes,
             CommonClasses \cup {TextClass("fixed", SKILLS_MAX)},
             {[shape |-> Shape(Node("section", {}, {"education"}), {}),
               class |-> TextClass("over", 0)],
              [shape |-> Shape(Node("li", {}, {}), {Node("div", {"education-section"}, {})}),
               class |-> TextClass("at_min", 0)]},
             EDUCATION_MIN, EDUCATION_CAP)

SkillsDocs ==
    ListDocs(SkillsShapes,
             CommonClasses \cup {TextClass("fixed", SKILLS_MAX - 1),
                                 TextClass("fixed", SKILLS_MAX)},
             {[shape |-> Shape(Node("li", {}, {}), {Node("section", {}, {"skills"})}),
               class |-> TextClass("over", 0)],
              [shape |-> Shape(Node("li", {"pv-skill-category-list__skill"}, {}),
                               {Node("section", {}, {"skills"})}),
               class |-> TextClass("same", 0)],
              [shape |-> Shape(Node("li", {}, {}), {Node("div", {"skills-section"}, {})}),
               class |-> TextClass("fixed", SKILLS_MAX)]},
             SKILLS_MIN, SKILLS_CAP)

Docs ==
    {EmptyDoc, MinimalDoc} \cup MetaDocs \cup CascadeDocs
        \cup ExperienceDocs \cup EducationDocs \cup SkillsDocs

\* Bodies served with an error status.
ErrorDocs == {EmptyDoc, MinimalDoc}

StatusCodes == {200, 204, 302, 399, 400, 404, 500, 502, 599}

Response(status_code, doc) == [status_code |-> status_code, text |-> doc]

\* Messages of the requests.RequestException a fetch may raise.
ExceptionMessages ==
    {"", "timed out", "No connection adapters were found",
     "Invalid URL", "Failed to fetch the page"}

\* What requests.get may return for a url: any status with a small body for
\* every url, and every document of the model behind http://a.
Responses(u) ==
    {Response(s, d) : s \in StatusCodes, d \in ErrorDocs}
        \cup (IF u = U_http THEN {Response(200, d) : d \in Docs} ELSE {})

----------------------------------------------------------------------------
(* The handler scrape_linkedin *)

\* raise HTTPException(status_code=..., detail=...)
HTTPException(status_code, detail) ==
    [kind |-> "error", status_code |-> status_code, detail |-> detail]

\* return data (answered with status 200 and the record as its body)
Returned(data) == [kind |-> "ok", status_code |-> 200, data |-> data]

InvalidUrlError == HTTPException(400, "Invalid URL")

\* Mutant: the transport failure reported with the upstream failure's detail.
TransportErrorSameDetail(e) == HTTPException(502, "Failed to fetch the page")

TransportError(e) == HTTPException(502, "Request failed: " \o e)

\* Mutant: every upstream failure reported as a bad gateway.
UpstreamErrorBadGateway(r) == HTTPException(502, "Failed to fetch the page")

UpstreamError(r) == HTTPException(r.status_code, "Failed to fetch the page")

\* if not url.startswith("http")
UrlAccepted(u) == StartsWith(u, <<"h","t","t","p">>)

\* Mutant: an empty element text ends the cascade as well.
CascadeAcceptsEmpty(doc, sel) ==
    LET el == select_one(doc, sel)
    IN  IF el # 0 THEN clean_text(Some(get_text(doc.elements[el], <<>>)))
        ELSE None

\* One iteration of a cascade loop: the normalized text of the first element
\* matching sel when that text is non-empty, None otherwise.
CascadeTry(doc, sel) ==
    LET el == select_one(doc, sel)
        text == IF el = 0 THEN None
                ELSE clean_text(Some(get_text(doc.elements[el], <<>>)))
    IN  IF el # 0 /\ Truthy(text) THEN text ELSE None

\* text = clean_text(item.get_text(" "))
ItemText(doc, p) == clean_text(Some(get_text(doc.elements[p], <<" ">>)))

ExperienceOkAtMin(text) == Truthy(text) /\ Len(text.v) >= EXPERIENCE_MIN

ExperienceOk(text) == Truthy(text) /\ Len(text.v) > EXPERIENCE_MIN

EducationOk(text) == Truthy(text) /\ Len(text.v) > EDUCATION_MIN

SkillsOk(text) ==
    Truthy(text) /\ SKILLS_MIN < Len(text.v) /\ Len(text.v) < SKILLS_MAX

\* Mutant: the loop stops one entry late.
CapReachedLate(list, cap) == Len(list) > cap

\* if len(list) >= cap: break
CapReached(list, cap) == Len(list) >= cap

Title(doc) ==
    IF doc.og_title.tag /\ doc.og_title.has_content
    THEN clean_text(Some(doc.og_title.content))
    ELSE clean_text(IF doc.title.tag THEN doc.title.string ELSE None)

Description(doc) ==
    IF doc.og_description.tag /\ doc.og_description.has_content
    THEN clean_text(Some(doc.og_description.content))
    ELSE IF doc.meta_desc.tag /\ doc.meta_desc.has_content
    THEN clean_text(Some(doc.meta_desc.content))
    ELSE None

Image(doc) ==
    IF doc.og_image.tag /\ doc.og_image.has_content
    THEN Some(doc.og_image.content)
    ELSE None

\* Mutant: the status tells whether anything was extracted.
DataStatusByContent(u, doc, nm, hl, ex, ed, sk) ==
    [source |-> u,
     status |-> IF ex = <<>> /\ ed = <<>> /\ sk = <<>> /\ ~nm.some
                THEN "empty" ELSE "ok",
     title |-> Title(doc), description |-> Description(doc),
     image |-> Image(doc), name |-> nm, headline |-> hl,
     experience |-> ex, education |-> ed, skills |-> sk]

Data(u, doc, nm, hl, ex, ed, sk) ==
    [source |-> u, status |-> "ok",
     title |-> Title(doc), description |-> Description(doc),
     image |-> Image(doc), name |-> nm, headline |-> hl,
     experience |-> ex, education |-> ed, skills |-> sk]

----------------------------------------------------------------------------
(* Specification of the handler: one request from validation to its answer *)

Init ==
    /\ url \in Urls
    /\ pc = "validate"
    /\ fetched = FALSE
    /\ resp = None
    /\ soup = None
    /\ name = None
    /\ headline = None
    /\ name_evald = <<>>
    /\ headline_evald = <<>>
    /\ experience = <<>>
    /\ education = <<>>
    /\ skills = <<>>
    /\ exp_i = 0
    /\ edu_i = 0
    /\ skl_i = 0
    /\ result = None
    /\ failure = "none"
    /\ arg = None
    /\ out1 = None
    /\ out2 = None

\* Lines 94-95: the scheme check.
Validate ==
    /\ pc = "validate"
    /\ IF ~UrlAccepted(url)
       THEN /\ result' = Some(InvalidUrlError)
            /\ failure' = "invalid_input"
            /\ pc' = "done"
       ELSE /\ pc' = "fetch"
            /\ UNCHANGED <<result, failure>>
    /\ UNCHANGED <<url, fetched, resp, soup, name, headline, name_evald,
                   headline_evald, experience, education, skills, exp_i,
                   edu_i, skl_i>>
    /\ UNCHANGED cleanVars

\* Lines 97-100: requests.get raises a RequestException.
FetchRaises ==
    /\ pc = "fetch"
    /\ fetched' = TRUE
    /\ \E e \in ExceptionMessages : result' = Some(TransportError(e))
    /\ failure' = "transport"
    /\ pc' = "done"
    /\ UNCHANGED <<url, resp, soup, name, headline, name_evald,
                   headline_evald, experience, education, skills, exp_i,
                   edu_i, skl_i>>
    /\ UNCHANGED cleanVars

\* Line 98: requests.get returns a response.
FetchReturns ==
    /\ pc = "fetch"
    /\ fetched' = TRUE
    /\ \E r \in Responses(url) : resp' = Some(r)
    /\ pc' = "status"
    /\ UNCHANGED <<url, soup, name, headline, name_evald, headline_evald,
                   experience, education, skills, exp_i, edu_i, skl_i,
                   result, failure>>
    /\ UNCHANGED cleanVars

\* Lines 102-105: an error status is propagated, anything else is parsed.
CheckStatus ==
    /\ pc = "status"
    /\ IF resp.v.status_code >= 400
       THEN /\ result' = Some(UpstreamError(resp.v))
            /\ failure' = "upstream"
            /\ pc' = "done"
            /\ soup' = soup
       ELSE /\ soup' = Some(resp.v.text)
            /\ pc' = "name"
            /\ UNCHANGED <<result, failure>>
    /\ UNCHANGED <<url, fetched, resp, name, headline, name_evald,
                   headline_evald, experience, education, skills, exp_i,
                   edu_i, skl_i>>
    /\ UNCHANGED cleanVars

\* Lines 127-131: one iteration of the name cascade.
NameStep ==
    /\ pc = "name"
    /\ LET sel == possible_name_selectors[Len(name_evald) + 1]
           hit == CascadeTry(soup.v, sel)
       IN  /\ name_evald' = Append(name_evald, sel)
           /\ name' = IF hit.some THEN hit ELSE name
           /\ pc' = IF hit.some \/ Len(name_evald') = Len(possible_name_selectors)
                    THEN "headline" ELSE "name"
    /\ UNCHANGED <<url, fetched, resp, soup, headline, headline_evald,
                   experience, education, skills, exp_i, edu_i, skl_i,
                   result, failure>>
    /\ UNCHANGED cleanVars

\* Lines 138-142: one iteration of the headline cascade.
HeadlineStep ==
    /\ pc = "headline"
    /\ LET sel == possible_headline_selectors[Len(headline_evald) + 1]
           hit == CascadeTry(soup.v, sel)
       IN  /\ headline_evald' = Append(headline_evald, sel)
           /\ headline' = IF hit.some THEN hit ELSE headline
           /\ pc' = IF hit.some
                       \/ Len(headline_evald') = Len(possible_headline_selectors)
                    THEN "experience" ELSE "headline"
    /\ UNCHANGED <<url, fetched, resp, soup, name, name_evald,
                   experience, education, skills, exp_i, edu_i, skl_i,
                   result, failure>>
    /\ UNCHANGED cleanVars

\* Lines 145-151: one iteration of the experience loop, or its exhaustion.
ExperienceStep ==
    /\ pc = "experience"
    /\ LET items == select(soup.v, experience_selectors)
       IN  IF exp_i >= Len(items)
           THEN /\ pc' = "education"
                /\ UNCHANGED <<experience, exp_i>>
           ELSE LET text == ItemText(soup.v, items[exp_i + 1])
                    new == IF ExperienceOk(text) THEN Append(experience, text.v)
                           ELSE experience
                IN  /\ experience' = new
                    /\ exp_i' = exp_i + 1
                    /\ pc' = IF CapReached(new, EXPERIENCE_CAP)
                             THEN "education" ELSE "experience"
    /\ UNCHANGED <<url, fetched, resp, soup, name, headline, name_evald,
                   headline_evald, education, skills, edu_i, skl_i,
                   result, failure>>
    /\ UNCHANGED cleanVars

\* Lines 153-159: one iteration of the education loop, or its exhaustion.
EducationStep ==
    /\ pc = "education"
    /\ LET items == select(soup.v, education_selectors)
       IN  IF edu_i >= Len(items)
           THEN /\ pc' = "skills"
                /\ UNCHANGED <<education, edu_i>>
           ELSE LET text == ItemText(soup.v, items[edu_i + 1])
                    new == IF EducationOk(text) THEN Append(education, text.v)
                           ELSE education
                IN  /\ education' = new
                    /\ edu_i' = edu_i + 1
                    /\ pc' = IF CapReached(new, EDUCATION_CAP)
                             THEN "skills" ELSE "education"
    /\ UNCHANGED <<url, fetched, resp, soup, name, headline, name_evald,
                   headline_evald, experience, skills, exp_i, skl_i,
                   result, failure>>
    /\ UNCHANGED cleanVars

\* Lines 161-167: one iteration of the skills loop, or its exhaustion.
SkillsStep ==
    /\ pc = "skills"
    /\ LET items == select(soup.v, skills_selectors)
       IN  IF skl_i >= Len(items)
           THEN /\ pc' = "assemble"
                /\ UNCHANGED <<skills, skl_i>>
           ELSE LET text == ItemText(soup.v, items[skl_i + 1])
                    new == IF SkillsOk(text) THEN Append(skills, text.v)
                           ELSE skills
                IN  /\ skills' = new
                    /\ skl_i' = skl_i + 1
                    /\ pc' = IF CapReached(new, SKILLS_CAP)
                             THEN "assemble" ELSE "skills"
    /\ UNCHANGED <<url, fetched, resp, soup, name, headline, name_evald,
                   headline_evald, experience, education, exp_i, edu_i,
                   result, failure>>
    /\ UNCHANGED cleanVars

\* Lines 169-182: the record is assembled and returned.
Assemble ==
    /\ pc = "assemble"
    /\ result' = Some(Returned(Data(url, soup.v, name, headline,
                                    experience, education, skills)))
    /\ pc' = "done"
    /\ UNCHANGED <<url, fetched, resp, soup, name, headline, name_evald,
                   headline_evald, experience, education, skills, exp_i,
                   edu_i, skl_i, failure>>
    /\ UNCHANGED cleanVars

Next ==
    \/ Validate
    \/ FetchRaises
    \/ FetchReturns
    \/ CheckStatus
    \/ NameStep
    \/ HeadlineStep
    \/ ExperienceStep
    \/ EducationStep
    \/ SkillsStep
    \/ Assemble

Spec == Init /\ [][Next]_vars

----------------------------------------------------------------------------
(* Specification of clean_text on its own *)

Alphabet == {"a", "b", " ", "\n"}

CleanInputs == {None} \cup {Some(s) : s \in SeqsUpTo(Alphabet, MaxLen)}

InitClean ==
    /\ arg \in CleanInputs
    /\ out1 = None
    /\ out2 = None
    /\ pc = "clean"
    /\ url = U_empty
    /\ fetched = FALSE
    /\ resp = None
    /\ soup = None
    /\ name = None
    /\ headline = None
    /\ name_evald = <<>>
    /\ headline_evald = <<>>
    /\ experience = <<>>
    /\ education = <<>>
    /\ skills = <<>>
    /\ exp_i = 0
    /\ edu_i = 0
    /\ skl_i = 0
    /\ result = None
    /\ failure = "none"

\* out1 = clean_text(arg)
CleanOnce ==
    /\ pc = "clean"
    /\ out1' = clean_text(arg)
    /\ pc' = "cleaned"
    /\ UNCHANGED <<arg, out2>>
    /\ UNCHANGED <<url, fetched, resp, soup, name, headline, name_evald,
                   headline_evald, experience, education, skills, exp_i,
                   edu_i, skl_i, result, failure>>

\* out2 = clean_text(out1)
CleanAgain ==
    /\ pc = "cleaned"
    /\ out2' = clean_text(out1)
    /\ pc' = "cleaned_twice"
    /\ UNCHANGED <<arg, out1>>
    /\ UNCHANGED <<url, fetched, resp, soup, name, headline, name_evald,
                   headline_evald, experience, education, skills, exp_i,
                   edu_i, skl_i, result, failure>>

NextClean == CleanOnce \/ CleanAgain

SpecClean == InitClean /\ [][NextClean]_vars

----------------------------------------------------------------------------
(* Vocabulary of the properties *)

Min(S) == CHOOSE x \in S : \A y \in S : x <= y

HasHttpScheme(u) ==
    \/ StartsWith(u, <<"h","t","t","p",":","/","/">>)
    \/ StartsWith(u, <<"h","t","t","p","s",":","/","/">>)

\* Nothing of the parse and extraction steps has happened.
NoExtraction ==
    /\ soup = None
    /\ name = None /\ headline = None
    /\ name_evald = <<>> /\ headline_evald = <<>>
    /\ experience = <<>> /\ education = <<>> /\ skills = <<>>
    /\ exp_i = 0 /\ edu_i = 0 /\ skl_i = 0

Answered == pc = "done" /\ result.some

IsList(x) == DOMAIN x = 1..Len(x)

\* The failure kind a caller reads off the status code and the detail.
Classify(sig) ==
    IF sig.status_code = 400 /\ sig.detail = "Invalid URL" THEN "invalid_input"
    ELSE IF sig.detail = "Failed to fetch the page" THEN "upstream"
    ELSE "transport"

\* Position of the document-order-first element matching sel, 0 if none.
FirstMatch(doc, sel) ==
    LET P == {p \in 1..Len(doc.elements) : Matches(sel, doc.elements[p])}
    IN  IF P = {} THEN 0 ELSE Min(P)

\* Normalized text of the first element matching sel, None without a match.
FirstText(doc, sel) ==
    IF FirstMatch(doc, sel) = 0 THEN None
    ELSE clean_text(Some(get_text(doc.elements[FirstMatch(doc, sel)], <<>>)))

\* What a finished cascade over sels must have left in value and evald.
CascadeResult(doc, sels, value, evald) ==
    LET W == {k \in 1..Len(sels) : Truthy(FirstText(doc, sels[k]))}
    IN  IF W = {}
        THEN value = None /\ evald = sels
        ELSE /\ value = FirstText(doc, sels[Min(W)])
             /\ evald = SubSeq(sels, 1, Min(W))

AfterName == pc \in {"headline", "experience", "education", "skills", "assemble"}
                \/ (pc = "done" /\ soup.some)

AfterHeadline == pc \in {"experience", "education", "skills", "assemble"}
                    \/ (pc = "done" /\ soup.some)

AfterExperience == pc \in {"education", "skills", "assemble"}
                      \/ (pc = "done" /\ soup.some)

AfterEducation == pc \in {"skills", "assemble"} \/ (pc = "done" /\ soup.some)

AfterSkills == pc = "assemble" \/ (pc = "done" /\ soup.some)

TextsAt(doc, ps) == [k \in 1..Len(ps) |-> ItemText(doc, ps[k]).v]

\* The items among ps whose normalized text passes the filter Ok.
Qualifying(doc, ps, Ok(_)) == SelectSeq(ps, LAMBDA p : Ok(ItemText(doc, p)))

Prefix(s, n) == SubSeq(s, 1, IF n < Len(s) THEN n ELSE Len(s))

\* A collection loop over items, i of them examined, has kept within cap,
\* has appended exactly the qualifying items examined, has examined nothing
\* after the cap-th entry, and once over (after) holds the first cap
\* qualifying texts.
Bounded(doc, items, Ok(_), cap, list, i, after) ==
    LET q == Qualifying(doc, items, Ok)
    IN  /\ Len(list) <= cap
        /\ i <= Len(items)
        /\ list = TextsAt(doc, Qualifying(doc, Prefix(items, i), Ok))
        /\ Len(list) = cap => i > 0 /\ Ok(ItemText(doc, items[i]))
        /\ after => /\ Len(list) = (IF Len(q) < cap THEN Len(q) ELSE cap)
                    /\ list = TextsAt(doc, Prefix(q, cap))

\* Positions of the elements matching any selector of sels, ascending.
RECURSIVE Ascending(_)
Ascending(S) ==
    IF S = {} THEN <<>> ELSE <<Min(S)>> \o Ascending(S \ {Min(S)})

DocumentOrder(doc, sels) ==
    Ascending({p \in 1..Len(doc.elements) :
                  \E k \in 1..Len(sels) : Matches(sels[k], doc.elements[p])})

\* The list holds the accepted texts of the first i elements in document
\* order, one per element.
InDocumentOrder(doc, sels, Ok(_), list, i) ==
    list = TextsAt(doc, Qualifying(doc, Prefix(DocumentOrder(doc, sels), i), Ok))

\* The list a selector-by-selector visit would collect.
SelectorBySelector(doc, sels, Ok(_), cap) ==
    TextsAt(doc, Prefix(Qualifying(doc, select_per_selector(doc, sels), Ok), cap))

\* Index of the first selector of sels matching el, 0 if none.
FirstSelector(sels, el) ==
    LET K == {k \in 1..Len(sels) : Matches(sels[k], el)}
    IN  IF K = {} THEN 0 ELSE Min(K)

RECURSIVE Tokens(_)
\* The maximal runs of non-whitespace characters of s, in order.
Tokens(s) ==
    IF s = <<>> THEN <<>>
    ELSE IF IsSpace(s[1]) THEN Tokens(Tail(s))
    ELSE LET ws == {k \in 1..Len(s) : IsSpace(s[k])}
             n == IF ws = {} THEN Len(s) ELSE Min(ws) - 1
         IN  <<SubSeq(s, 1, n)>> \o Tokens(SubSeq(s, n + 1, Len(s)))

Canonical(s) ==
    \/ s = <<>>
    \/ /\ ~IsSpace(s[1])
       /\ ~IsSpace(s[Len(s)])
       /\ \A k \in 1..(Len(s) - 1) : ~(IsSpace(s[k]) /\ IsSpace(s[k + 1]))

----------------------------------------------------------------------------
(* The claims *)

\* C1: a request whose url does not begin with http:// or https:// is
\* answered with 400 "Invalid URL", and neither a fetch nor any extraction
\* is performed for it.
C1_NonHttpSchemeRejectedUnfetched ==
    ~HasHttpScheme(url) =>
        /\ ~fetched
        /\ NoExtraction
        /\ pc = "done" => result = Some(InvalidUrlError)

\* C2: when the fetch returns a response whose status code s is >= 400, the
\* caller is answered with status s, and parsing and extraction are never
\* reached: no record is produced.
C2_UpstreamStatusPropagated ==
    (resp.some /\ resp.v.status_code >= 400) =>
        /\ NoExtraction
        /\ pc \in {"status", "done"}
        /\ pc = "done" => /\ result.some
                          /\ result.v.kind = "error"
                          /\ result.v.status_code = resp.v.status_code

C2_Witness ==
    /\ pc = "done"
    /\ resp.some /\ resp.v.status_code = 404
    /\ result.some /\ result.v.status_code = 404

\* C3: status code and detail together tell the caller which of the three
\* failures happened (invalid input, transport failure, upstream error
\* status), for every upstream status including 400 and 502, and nothing is
\* extracted after a transport failure.
C3_FailuresDistinguishable ==
    /\ (result.some /\ result.v.kind = "error") =>
            /\ failure \in {"invalid_input", "transport", "upstream"}
            /\ Classify(result.v) = failure
    /\ (result.some /\ result.v.kind = "ok") => failure = "none"
    /\ failure = "transport" => NoExtraction /\ pc = "done"

C3_Witness ==
    /\ pc = "done"
    /\ failure = "upstream"
    /\ result.v.status_code = 502
    /\ fetched

\* C4: a url that passes validation and a response with status < 400 give a
\* record, whatever the document holds: status "ok", source the request's
\* url, and experience, education and skills each a list; no extraction
\* step raises.
C4_RecordAlwaysReturned ==
    (resp.some /\ resp.v.status_code < 400) =>
        /\ UrlAccepted(url)
        /\ failure = "none"
        /\ pc # "done" => ~result.some
        /\ pc = "done" =>
            /\ result.some
            /\ result.v.kind = "ok"
            /\ result.v.data.status = "ok"
            /\ result.v.data.source = url
            /\ IsList(result.v.data.experience)
            /\ IsList(result.v.data.education)
            /\ IsList(result.v.data.skills)

C4_Witness ==
    /\ pc = "done"
    /\ soup = Some(EmptyDoc)
    /\ result.v.kind = "ok"
    /\ ~result.v.data.title.some
    /\ ~result.v.data.name.some
    /\ result.v.data.experience = <<>>
    /\ result.v.data.education = <<>>
    /\ result.v.data.skills = <<>>

\* C5: title is the normalized og:title value when that is present and
\* non-empty after normalization; otherwise (og:title absent, or empty after
\* normalization) it is the normalized <title> text, absent without <title>.
C5_TitleFallsBackOnEmptyOgTitle ==
    (Answered /\ result.v.kind = "ok") =>
        LET og == IF soup.v.og_title.tag /\ soup.v.og_title.has_content
                  THEN clean_text(Some(soup.v.og_title.content)) ELSE None
            page == IF soup.v.title.tag THEN clean_text(soup.v.title.string)
                    ELSE None
        IN  result.v.data.title = IF Truthy(og) THEN og ELSE page

\* C6: name and headline are the normalized text of the document-order-first
\* match of the earliest selector of the chain whose first match has
\* non-empty normalized text; no later selector is evaluated; a selector
\* without a match or with an empty first match is skipped; and the result
\* is absent, never the empty string, when no selector yields text.
C6_CascadeFirstNonEmpty ==
    /\ name.some => Truthy(name)
    /\ headline.some => Truthy(headline)
    /\ AfterName =>
        CascadeResult(soup.v, possible_name_selectors, name, name_evald)
    /\ AfterHeadline =>
        CascadeResult(soup.v, possible_headline_selectors, headline,
                      headline_evald)
    /\ (Answered /\ result.v.kind = "ok") =>
        /\ result.v.data.name = name
        /\ result.v.data.headline = headline

\* The first heading is empty, so "h1" is skipped, the second selector
\* answers, and the two selectors after it are not evaluated.
C6_Witness ==
    /\ pc = "done" /\ soup.some
    /\ Len(name_evald) = 2
    /\ FirstMatch(soup.v, possible_name_selectors[1]) # 0
    /\ Truthy(name)
    /\ Truthy(FirstText(soup.v, possible_name_selectors[4]))
    /\ FirstText(soup.v, possible_name_selectors[4]) # name

\* C7: each list stays within its capacity (8, 8, 25) at every step; the
\* returned list has min(q, capacity) entries for q qualifying elements, the
\* first ones in visitation order; nothing is examined or appended once the
\* capacity is reached.
C7_ListsBounded ==
    soup.some =>
        /\ Bounded(soup.v, select(soup.v, experience_selectors), ExperienceOk,
                   EXPERIENCE_CAP, experience, exp_i, AfterExperience)
        /\ Bounded(soup.v, select(soup.v, education_selectors), EducationOk,
                   EDUCATION_CAP, education, edu_i, AfterEducation)
        /\ Bounded(soup.v, select(soup.v, skills_selectors), SkillsOk,
                   SKILLS_CAP, skills, skl_i, AfterSkills)
        /\ (Answered /\ result.v.kind = "ok") =>
            /\ result.v.data.experience = experience
            /\ result.v.data.education = education
            /\ result.v.data.skills = skills

\* More qualifying skills than the capacity: 25 returned, the loop having
\* stopped at the 25th element.
C7_Witness ==
    /\ pc = "done" /\ soup.some
    /\ Len(Qualifying(soup.v, select(soup.v, skills_selectors), SkillsOk))
          > SKILLS_CAP
    /\ Len(result.v.data.skills) = SKILLS_CAP
    /\ skl_i = SKILLS_CAP

\* C8: every experience entry is longer than 30, every education entry
\* longer than 20, every skills entry longer than 2 and shorter than 80:
\* a text of length 30, 20, 2 or 80, or beyond, is never in a list.
C8_EntriesWithinLengthFilter ==
    /\ \A k \in 1..Len(experience) : Len(experience[k]) > EXPERIENCE_MIN
    /\ \A k \in 1..Len(education) : Len(education[k]) > EDUCATION_MIN
    /\ \A k \in 1..Len(skills) :
          SKILLS_MIN < Len(skills[k]) /\ Len(skills[k]) < SKILLS_MAX
    /\ (Answered /\ result.v.kind = "ok") =>
        /\ result.v.data.experience = experience
        /\ result.v.data.education = education
        /\ result.v.data.skills = skills

\* An element of exactly 30 characters was examined after an entry had been
\* collected, and is not in the list.
C8_Witness ==
    /\ pc = "done" /\ soup.some
    /\ Len(experience) >= 1
    /\ \E k \in 2..exp_i :
          LET p == select(soup.v, experience_selectors)[k]
          IN  Len(ItemText(soup.v, p).v) = EXPERIENCE_MIN

\* C9: clean_text applied twice gives what it gives once; None stays None and
\* the empty string stays empty; any other result has no leading or trailing
\* whitespace and no two whitespace characters in a row: it is the input's
\* tokens joined by single spaces.
C9_CleanTextCanonical ==
    /\ pc \in {"cleaned", "cleaned_twice"} =>
        /\ arg = None => out1 = None
        /\ arg = Some(<<>>) => out1 = Some(<<>>)
        /\ Truthy(arg) => /\ out1.some
                          /\ Canonical(out1.v)
                          /\ out1.v = Join(Tokens(arg.v), <<" ">>)
    /\ pc = "cleaned_twice" => out2 = out1

C9_Witness ==
    /\ pc = "cleaned_twice"
    /\ arg = Some(<<"a", " ", "\n", "b">>)
    /\ out1 = Some(<<"a", " ", "b">>)
    /\ out2 = out1

\* C10 as stated: candidates are visited selector by selector in listed
\* order, in document order within one selector, so that a match of an
\* earlier-listed selector precedes every match of a later-listed one only,
\* and an element matching two selectors is appended once per selector.
C10_SelectorBySelectorOrder ==
    (Answered /\ result.v.kind = "ok") =>
        /\ result.v.data.experience =
              SelectorBySelector(soup.v, experience_selectors, ExperienceOk,
                                 EXPERIENCE_CAP)
        /\ result.v.data.education =
              SelectorBySelector(soup.v, education_selectors, EducationOk,
                                 EDUCATION_CAP)
        /\ result.v.data.skills =
              SelectorBySelector(soup.v, skills_selectors, SkillsOk, SKILLS_CAP)

\* C10, amended: the candidates of a list field are the elements matching
\* any selector of the field's set, visited in document order whichever
\* selector matches them, each element once; accepted texts are appended in
\* that order and equal texts of different elements are all kept.
C10_DocumentOrderEachElementOnce ==
    soup.some =>
        /\ InDocumentOrder(soup.v, experience_selectors, ExperienceOk,
                           experience, exp_i)
        /\ InDocumentOrder(soup.v, education_selectors, EducationOk,
                           education, edu_i)
        /\ InDocumentOrder(soup.v, skills_selectors, SkillsOk, skills, skl_i)
        /\ (Answered /\ result.v.kind = "ok") =>
            /\ result.v.data.experience = experience
            /\ result.v.data.education = education
            /\ result.v.data.skills = skills

\* A match of a later-listed selector stands before a match of the first
\* selector in the document and in the list, next to an element that matches
\* two selectors and is listed once, and the same text is kept twice.
C10_Witness ==
    /\ pc = "done" /\ soup.some
    /\ Len(soup.v.elements) = 3
    /\ exp_i = 3
    /\ FirstSelector(experience_selectors, soup.v.elements[1]) = 3
    /\ FirstSelector(experience_selectors, soup.v.elements[2]) = 1
    /\ Matches(experience_selectors[2], soup.v.elements[2])
    /\ result.v.data.experience = TextsAt(soup.v, <<1, 2, 3>>)
    /\ result.v.data.experience[1] = result.v.data.experience[3]

====
